---- MODULE Spec2Model ----
(***************************************************************************)
(* nodframe (src/src/lib.rs): columns, frames, filtering, the numeric      *)
(* matrix view and the CSV load/save path, with T = i32.                   *)
(*                                                                         *)
(* Rust values are represented as follows.                                 *)
(*   Vec<X>            a sequence; Rust index i is TLA+ index i + 1        *)
(*   Option<X>         None is << >>, Some(x) is <<x>>                     *)
(*   Column<T>         [kind, key, items], kind "Numeric" or "Discrete"    *)
(*   NodFrame<T>       [columns, column_idx, num_rows, num_cols]           *)
(*   HashMap<String,_> a function whose domain is the set of keys          *)
(*   a call's outcome  [st |-> "ok", value |-> v], [st |-> "panic"] or     *)
(*                     [st |-> "err"] (the Err of a Result)                *)
(***************************************************************************)
EXTENDS Integers, Sequences, FiniteSets

VARIABLES frame, column, ret, file

vars == <<frame, column, ret, file>>

--------------------------------------------------------------------------
(* Bounds and input universes *)

\* Longest data vector handed to a builder.
MaxRows == 2

\* Column names the callers use.  Two names give both distinct and duplicate keys.
Names == {"a", "b"}

\* Most keys handed to frame_from_vecs in total, and most data vectors of
\* each kind: as many as there are names.
MaxCols == Cardinality(Names)

\* Values of T (i32) stored in numeric columns and used as filter operands.
NumVals == {1, 2}

\* Values of discrete cells and string operands: one that does not parse as
\* i32 and one that does.
StrVals == {"x", "1"}

Comp == {"Eq", "Geq", "Leq", "Les", "Gra", "Not"}

None == << >>

Some(v) == <<v>>

Opt(S) == {None} \cup {Some(v) : v \in S}

SeqsUpTo(S, n) == UNION {[1..k -> S] : k \in 0..n}

Min(a, b) == IF a < b THEN a ELSE b

Ok(v) == [st |-> "ok", value |-> v]

Panic == [st |-> "panic"]

Err == [st |-> "err"]

--------------------------------------------------------------------------
(* Conversions of T = i32 and usize *)

Digit == <<"0", "1", "2", "3", "4", "5", "6", "7", "8", "9">>

RECURSIVE to_string(_)
to_string(n) ==
    IF n < 0 THEN "-" \o to_string(0 - n)
    ELSE IF n < 10 THEN Digit[n + 1]
    ELSE to_string(n \div 10) \o Digit[(n % 10) + 1]

\* Strings i32::from_str accepts besides the canonical forms: a leading
\* plus sign and leading zeros.
NonCanonical == [s \in {"+1", "01", "+2", "02"} |->
                    IF s \in {"+1", "01"} THEN 1 ELSE 2]

\* The i32 values whose canonical form can occur in the model's strings.
ParseRange == -9..99

\* str::parse::<i32>: Ok(n) or Err.
Parse(s) ==
    IF \E n \in ParseRange : to_string(n) = s
    THEN Ok(CHOOSE n \in ParseRange : to_string(n) = s)
    ELSE IF s \in DOMAIN NonCanonical THEN Ok(NonCanonical[s])
    ELSE Err

RECURSIVE Join(_, _)
Join(strs, sep) ==
    IF strs = << >> THEN ""
    ELSE IF Len(strs) = 1 THEN strs[1]
    ELSE strs[1] \o sep \o Join(Tail(strs), sep)

--------------------------------------------------------------------------
(* Comparator *)

\* compare with Les taken as <=.
compare_les_as_leq(a, op, b) ==
    CASE op = "Eq"  -> a = b
      [] op = "Les" -> a <= b
      [] op = "Gra" -> a > b
      [] op = "Geq" -> a >= b
      [] op = "Leq" -> a <= b
      [] op = "Not" -> a # b

compare(a, op, b) ==
    CASE op = "Eq"  -> a = b
      [] op = "Les" -> a < b
      [] op = "Gra" -> a > b
      [] op = "Geq" -> a >= b
      [] op = "Leq" -> a <= b
      [] op = "Not" -> a # b

--------------------------------------------------------------------------
(* Columns *)

\* items.iter().zip(picker.iter()).filter(|(_, b)| **b).map(|(a, _)| a.clone())
\* zip stops at the shorter of the two.
RECURSIVE ZipFilter(_, _)
ZipFilter(items, picker) ==
    IF items = << >> \/ picker = << >> THEN << >>
    ELSE (IF Head(picker) THEN <<Head(items)>> ELSE << >>)
           \o ZipFilter(Tail(items), Tail(picker))

\* ZipFilter keeping the elements whose picker entry is false.
RECURSIVE ZipFilterNegated(_, _)
ZipFilterNegated(items, picker) ==
    IF items = << >> \/ picker = << >> THEN << >>
    ELSE (IF Head(picker) THEN << >> ELSE <<Head(items)>>)
           \o ZipFilterNegated(Tail(items), Tail(picker))

build_column_numeric(key, data) ==
    [kind |-> "Numeric", key |-> key, items |-> data]

build_column_discrete(key, data) ==
    [kind |-> "Discrete", key |-> key, items |-> data]

\* binary_view with the filter closure negated.
NumericColumn_binary_view_negated(n, picker) ==
    [kind |-> "Numeric", key |-> n.key, items |-> ZipFilterNegated(n.items, picker)]

NumericColumn_binary_view(n, picker) ==
    [kind |-> "Numeric", key |-> n.key, items |-> ZipFilter(n.items, picker)]

DiscreteColumn_binary_view(d, picker) ==
    [kind |-> "Discrete", key |-> d.key, items |-> ZipFilter(d.items, picker)]

DiscreteColumn_filter_array(d, val) ==
    [i \in 1..Len(d.items) |-> val = d.items[i]]

NumericColumn_filter_array(n, val, comparison) ==
    [i \in 1..Len(n.items) |-> compare(n.items[i], comparison, val)]

NumericColumn_to_string(n) ==
    n.key \o ": [" \o Join([i \in 1..Len(n.items) |-> to_string(n.items[i])], ", ") \o "]"

DiscreteColumn_to_string(d) ==
    d.key \o ": [" \o Join(d.items, ", ") \o "]"

\* Column::get_key
get_key(c) == c.key

\* Column::get_num(index): None for a discrete column; for a numeric one the
\* element, a panic when index is out of range (items[index]).
get_num(c, index) ==
    IF c.kind = "Discrete" THEN Ok(None)
    ELSE IF index < Len(c.items) THEN Ok(Some(c.items[index + 1]))
    ELSE Panic

\* filter_array with both optionals unwrapped before the match.
filter_array_unwrap_both(c, comp, val, str_val) ==
    IF str_val = None \/ val = None THEN Panic
    ELSE IF c.kind = "Discrete"
    THEN Ok(DiscreteColumn_filter_array(c, str_val[1]))
    ELSE Ok(NumericColumn_filter_array(c, val[1], comp))

\* Column::filter_array: the unwrap of the optional is inside the match arm.
filter_array(c, comp, val, str_val) ==
    IF c.kind = "Discrete"
    THEN IF str_val = None THEN Panic
         ELSE Ok(DiscreteColumn_filter_array(c, str_val[1]))
    ELSE IF val = None THEN Panic
         ELSE Ok(NumericColumn_filter_array(c, val[1], comp))

\* Column::binary_view
binary_view(c, picker) ==
    IF c.kind = "Numeric" THEN NumericColumn_binary_view(c, picker)
    ELSE DiscreteColumn_binary_view(c, picker)

\* Column::len
len(c) == Len(c.items)

\* Column::to_string
Column_to_string(c) ==
    IF c.kind = "Numeric" THEN NumericColumn_to_string(c)
    ELSE DiscreteColumn_to_string(c)

--------------------------------------------------------------------------
(* Frames *)

\* (0..cols.len()).map(|i| (cols[i].get_key().clone(), i)).collect::<HashMap<_, _>>()
\* A later pair with the same key replaces the earlier one.
CollectNames(cols) ==
    [k \in {get_key(cols[i]) : i \in 1..Len(cols)} |->
        CHOOSE p \in 0..(Len(cols) - 1) :
            /\ get_key(cols[p + 1]) = k
            /\ \A q \in 0..(Len(cols) - 1) : get_key(cols[q + 1]) = k => q <= p]

\* frame_from_vecs: num_data[0] panics on an empty num_data; the zips stop at
\* the shorter of keys and data.
frame_from_vecs(num_keys, num_data, str_keys, str_data) ==
    IF num_data = << >> THEN Panic
    ELSE LET data_rows == Len(num_data[1])
             num_columns == [i \in 1..Min(Len(num_keys), Len(num_data)) |->
                                [kind |-> "Numeric", key |-> num_keys[i], items |-> num_data[i]]]
             str_columns == [i \in 1..Min(Len(str_keys), Len(str_data)) |->
                                [kind |-> "Discrete", key |-> str_keys[i], items |-> str_data[i]]]
             cols == num_columns \o str_columns
         IN  Ok([columns |-> cols,
                 column_idx |-> CollectNames(cols),
                 num_rows |-> data_rows,
                 num_cols |-> Len(cols)])

\* NodFrame::numeric_cols
numeric_cols(F) ==
    LET num == SelectSeq(F.columns, LAMBDA c : c.kind = "Numeric")
    IN  [i \in 1..Len(num) |-> num[i].key]

\* NodFrame::numeric_index
numeric_index(F) ==
    LET cols == numeric_cols(F)
    IN  [i \in 1..Len(cols) |-> F.column_idx[cols[i]]]

\* NodFrame::numeric_rows: get_num(i).unwrap() panics on a discrete column
\* (None) and on a row the column does not have.
numeric_rows(F) ==
    LET idx == numeric_index(F)
        cell(i, j) == get_num(F.columns[idx[j] + 1], i)
    IN  IF \E i \in 0..(F.num_rows - 1), j \in 1..Len(idx) :
              cell(i, j) = Panic \/ cell(i, j) = Ok(None)
        THEN Panic
        ELSE Ok([r \in 1..F.num_rows |-> [j \in 1..Len(idx) |-> cell(r - 1, j).value[1]]])

\* filter_frame without the assignment to copy.num_rows.
filter_frame_stale_rows(F, col, comp, val, str_val) ==
    IF col \notin DOMAIN F.column_idx THEN Panic
    ELSE LET picker == filter_array(F.columns[F.column_idx[col] + 1], comp, val, str_val)
         IN  IF picker = Panic THEN Panic
             ELSE Ok([F EXCEPT !.columns =
                        [i \in 1..Len(F.columns) |-> binary_view(F.columns[i], picker.value)]])

\* NodFrame::filter_frame
filter_frame(F, col, comp, val, str_val) ==
    IF col \notin DOMAIN F.column_idx THEN Panic
    ELSE LET col_idx == F.column_idx[col]
             picker == filter_array(F.columns[col_idx + 1], comp, val, str_val)
         IN  IF picker = Panic THEN Panic
             ELSE LET columns == [i \in 1..Len(F.columns) |->
                                     binary_view(F.columns[i], picker.value)]
                  IN  Ok([F EXCEPT !.columns = columns,
                                   !.num_rows = len(columns[1])])

\* NodFrame::to_string
NodFrame_to_string(F) ==
    "nodframe:\n"
      \o Join([i \in 1..Len(F.columns) |-> Column_to_string(F.columns[i]) \o "\n"], "")
      \o "Num Rows: " \o to_string(F.num_rows)

--------------------------------------------------------------------------
(* The CSV file.  A file is [header, rows], the string table the csv crate's *)
(* Reader yields for what its Writer wrote.                                  *)

NoFile == [st |-> "none"]

\* csv::Writer::write_record then csv::Reader: a record of no fields is
\* written as one empty quoted field and read back as such.
WriteRecord(fields) == IF fields = << >> THEN <<"">> ELSE fields

\* NodFrame::to_csv: the header, then one record per row i < num_rows;
\* get(i) panics on a column shorter than i + 1, and the records written
\* before it reach the file when the Writer is dropped.
to_csv(F) ==
    LET short == {i \in 0..(F.num_rows - 1) :
                     \E j \in 1..Len(F.columns) : i >= len(F.columns[j])}
        written == IF short = {} THEN F.num_rows
                   ELSE CHOOSE i \in short : \A k \in short : i <= k
        cell(c, i) == IF c.kind = "Numeric" THEN to_string(c.items[i]) ELSE c.items[i]
        row(i) == [j \in 1..Len(F.columns) |-> cell(F.columns[j], i)]
    IN  [out |-> IF short = {} THEN Ok(<< >>) ELSE Panic,
         file |-> [header |-> WriteRecord([j \in 1..Len(F.columns) |-> get_key(F.columns[j])]),
                   rows |-> [i \in 1..written |-> WriteRecord(row(i))]]]

\* frame_from_csv: File::open fails on a missing file; data[i][0] panics when
\* the file has no data row; a column whose first cell parses is numeric and
\* keeps only the cells that parse.
frame_from_csv(f) ==
    IF f = NoFile THEN Err
    ELSE LET header == f.header
             data == [i \in 1..Len(header) |-> [r \in 1..Len(f.rows) |-> f.rows[r][i]]]
             parses(s) == Parse(s).st = "ok"
             isNum(i) == parses(data[i][1])
             positions == [i \in 1..Len(header) |-> i]
             num == SelectSeq(positions, isNum)
             disc == SelectSeq(positions, LAMBDA i : ~isNum(i))
             parsed(i) == LET good == SelectSeq(data[i], parses)
                          IN  [j \in 1..Len(good) |-> Parse(good[j]).value]
         IN  IF Len(header) > 0 /\ f.rows = << >> THEN Panic
             ELSE frame_from_vecs([k \in 1..Len(num) |-> header[num[k]]],
                                  [k \in 1..Len(num) |-> parsed(num[k])],
                                  [k \in 1..Len(disc) |-> header[disc[k]]],
                                  [k \in 1..Len(disc) |-> data[disc[k]]])

--------------------------------------------------------------------------
(* The caller.  frame and column are the values the caller holds, ret is the *)
(* outcome of its last call while it has not yet used or dropped it, file is *)
(* the CSV file on disk.  A panic ends the program: no action follows it.    *)

NoFrame == [st |-> "none"]

NoColumn == [st |-> "none"]

Nothing == [op |-> "none"]

DataVecs(S) == SeqsUpTo(S, MaxRows)

KeyLists == SeqsUpTo(Names, MaxCols)

\* Pickers handed to binary_view directly: every length up to one more than
\* the longest column.
Pickers == SeqsUpTo(BOOLEAN, MaxRows + 1)

Init ==
    /\ frame = NoFrame
    /\ column = NoColumn
    /\ ret = Nothing
    /\ file = NoFile

\* let frame = frame_from_vecs(num_keys, num_data, str_keys, str_data);
FrameFromVecs ==
    /\ frame = NoFrame
    /\ ret = Nothing
    /\ \E num_keys \in KeyLists, str_keys \in KeyLists,
          num_data \in SeqsUpTo(DataVecs(NumVals), MaxCols),
          str_data \in SeqsUpTo(DataVecs(StrVals), MaxCols) :
          /\ Len(num_keys) + Len(str_keys) <= MaxCols
          /\ LET out == frame_from_vecs(num_keys, num_data, str_keys, str_data)
             IN  IF out = Panic
                 THEN /\ ret' = [op |-> "frame_from_vecs", out |-> Panic]
                      /\ frame' = frame
                 ELSE /\ ret' = Nothing
                      /\ frame' = out.value
    /\ UNCHANGED <<column, file>>

\* frame.filter_frame(col, comp, val, str_val): &self, the frame is not changed.
FilterFrame ==
    /\ frame # NoFrame
    /\ ret = Nothing
    /\ \E col \in Names, comp \in Comp, val \in Opt(NumVals), str_val \in Opt(StrVals) :
          ret' = [op |-> "filter_frame", col |-> col, comp |-> comp, val |-> val,
                  str_val |-> str_val,
                  out |-> filter_frame(frame, col, comp, val, str_val)]
    /\ UNCHANGED <<frame, column, file>>

\* frame.numeric_rows(), with the numeric_cols() and numeric_index() it is built from.
NumericRows ==
    /\ frame # NoFrame
    /\ ret = Nothing
    /\ ret' = [op |-> "numeric_rows",
               cols |-> numeric_cols(frame),
               index |-> numeric_index(frame),
               out |-> numeric_rows(frame)]
    /\ UNCHANGED <<frame, column, file>>

\* frame.to_csv(path)
ToCsv ==
    /\ frame # NoFrame
    /\ ret = Nothing
    /\ ret' = [op |-> "to_csv", out |-> to_csv(frame).out]
    /\ file' = to_csv(frame).file
    /\ UNCHANGED <<frame, column>>

\* frame_from_csv::<i32>(path)
FrameFromCsv ==
    /\ ret = Nothing
    /\ ret' = [op |-> "frame_from_csv", out |-> frame_from_csv(file)]
    /\ UNCHANGED <<frame, column, file>>

\* The caller goes on with the frame a call returned.
Take ==
    /\ ret.op \in {"filter_frame", "frame_from_csv"}
    /\ ret.out.st = "ok"
    /\ frame' = ret.out.value
    /\ ret' = Nothing
    /\ UNCHANGED <<column, file>>

\* The caller drops the value (or the Err) a call returned.
Drop ==
    /\ ret # Nothing
    /\ ret.out.st # "panic"
    /\ ret' = Nothing
    /\ UNCHANGED <<frame, column, file>>

\* let column = build_column_numeric(key, data);
BuildColumnNumeric ==
    /\ column = NoColumn
    /\ ret = Nothing
    /\ \E key \in Names, data \in DataVecs(NumVals) :
          column' = build_column_numeric(key, data)
    /\ UNCHANGED <<frame, ret, file>>

\* let column = build_column_discrete(key, data);
BuildColumnDiscrete ==
    /\ column = NoColumn
    /\ ret = Nothing
    /\ \E key \in Names, data \in DataVecs(StrVals) :
          column' = build_column_discrete(key, data)
    /\ UNCHANGED <<frame, ret, file>>

\* column.binary_view(&picker)
BinaryView ==
    /\ column # NoColumn
    /\ ret = Nothing
    /\ \E picker \in Pickers :
          ret' = [op |-> "binary_view", picker |-> picker,
                  out |-> Ok(binary_view(column, picker))]
    /\ UNCHANGED <<frame, column, file>>

\* column.filter_array(comp, val, str_val)
FilterArray ==
    /\ column # NoColumn
    /\ ret = Nothing
    /\ \E comp \in Comp, val \in Opt(NumVals), str_val \in Opt(StrVals) :
          ret' = [op |-> "filter_array", comp |-> comp, val |-> val, str_val |-> str_val,
                  out |-> filter_array(column, comp, val, str_val)]
    /\ UNCHANGED <<frame, column, file>>

\* The caller goes on with the column binary_view returned.
TakeColumn ==
    /\ ret.op = "binary_view"
    /\ column' = ret.out.value
    /\ ret' = Nothing
    /\ UNCHANGED <<frame, file>>

\* Frames and the CSV file: build, filter, take the numeric matrix, write, load.
Next ==
    \/ FrameFromVecs
    \/ FilterFrame
    \/ NumericRows
    \/ ToCsv
    \/ FrameFromCsv
    \/ Take
    \/ Drop

Spec == Init /\ [][Next]_vars

\* Columns on their own: build, mask, compute a predicate mask.
NextColumn ==
    \/ BuildColumnNumeric
    \/ BuildColumnDiscrete
    \/ BinaryView
    \/ FilterArray
    \/ TakeColumn
    \/ Drop

SpecColumn == Init /\ [][NextColumn]_vars

--------------------------------------------------------------------------
(* Vocabulary of the claims, stated without the operators that model the code *)

\* The positions of mask M that are true, in ascending order.
TruePositions(M) ==
    LET n == Cardinality({i \in 1..Len(M) : M[i]})
    IN  [j \in 1..n |->
            CHOOSE i \in 1..Len(M) : M[i] /\ Cardinality({k \in 1..i : M[k]}) = j]

\* The elements of items at the true positions of M, for Len(M) = Len(items).
Kept(items, M) == [j \in 1..Len(TruePositions(M)) |-> items[TruePositions(M)[j]]]

\* The frame invariants (a) - (d) of the data model.
Aligned(F) ==
    /\ \A i \in 1..Len(F.columns) : Len(F.columns[i].items) = F.num_rows
    /\ F.num_cols = Len(F.columns)

UniqueNames(F) ==
    /\ \A i, j \in 1..Len(F.columns) : F.columns[i].key = F.columns[j].key => i = j
    /\ DOMAIN F.column_idx = {F.columns[i].key : i \in 1..Len(F.columns)}
    /\ \A i \in 1..Len(F.columns) : F.column_idx[F.columns[i].key] = i - 1

\* The column the frame's name index gives for name k.
Named(F, k) == F.columns[F.column_idx[k] + 1]

FilterReturned == ret.op = "filter_frame" /\ ret.out.st = "ok"

--------------------------------------------------------------------------
(* Column claims, checked under SpecColumn *)

\* C4: binary_view called with a mask whose length differs from the column's
\* length aborts and returns no column.
C4_MaskLengthMismatchFatal ==
    (ret.op = "binary_view" /\ Len(ret.picker) # Len(column.items))
        => ret.out.st = "panic"

\* C6: for a mask as long as the column, binary_view keeps the column's name
\* and variant, returns as many elements as the mask has true entries, and its
\* j-th element is the column's element at the j-th true position of the mask.
C6_MaskedView ==
    (ret.op = "binary_view" /\ Len(ret.picker) = Len(column.items))
        => LET out == ret.out.value
           IN  /\ out.key = column.key
               /\ out.kind = column.kind
               /\ Len(out.items) = Cardinality({i \in 1..Len(ret.picker) : ret.picker[i]})
               /\ \A j \in 1..Len(out.items) :
                      out.items[j] = column.items[TruePositions(ret.picker)[j]]

C6_Witness ==
    /\ ret.op = "binary_view"
    /\ column.kind = "Numeric"
    /\ column.items = <<1, 2>>
    /\ ret.picker = <<FALSE, TRUE>>
    /\ ret.out.value.items = <<2>>

\* C7: Column::filter_array returns a mask as long as the column; on a numeric
\* column element i is items[i] op value, with Eq, Not, Les, Leq, Gra, Geq
\* meaning =, #, <, <=, >, >=; on a discrete column element i is
\* items[i] = string value, whatever the comparator.
C7_FilterMask ==
    (ret.op = "filter_array" /\ ret.out.st = "ok")
        => LET m == ret.out.value
           IN  /\ Len(m) = Len(column.items)
               /\ \A i \in 1..Len(m) :
                      IF column.kind = "Numeric"
                      THEN LET x == column.items[i]
                               v == ret.val[1]
                           IN  /\ ret.comp = "Eq"  => (m[i] <=> x = v)
                               /\ ret.comp = "Not" => (m[i] <=> x # v)
                               /\ ret.comp = "Les" => (m[i] <=> x < v)
                               /\ ret.comp = "Leq" => (m[i] <=> x <= v)
                               /\ ret.comp = "Gra" => (m[i] <=> x > v)
                               /\ ret.comp = "Geq" => (m[i] <=> x >= v)
                      ELSE m[i] <=> column.items[i] = ret.str_val[1]

C7_Witness ==
    /\ ret.op = "filter_array"
    /\ column.kind = "Numeric"
    /\ column.items = <<1, 2>>
    /\ ret.comp = "Les"
    /\ ret.val = Some(2)
    /\ ret.out = Ok(<<TRUE, FALSE>>)

--------------------------------------------------------------------------
(* Frame claims, checked under Spec *)

\* C1: filter returns a frame in which every column is the masked view of the
\* corresponding input column under the one mask computed from the named
\* column, all result columns have the same length, and row_count is the
\* number of true entries of that mask.
C1_FilterAppliesOneMask ==
    FilterReturned
        => LET R == ret.out.value
               M == filter_array(Named(frame, ret.col), ret.comp, ret.val, ret.str_val).value
           IN  /\ Len(R.columns) = Len(frame.columns)
               /\ \A i \in 1..Len(R.columns) :
                      Len(M) = Len(frame.columns[i].items)
                          => R.columns[i].items = Kept(frame.columns[i].items, M)
               /\ \A i, j \in 1..Len(R.columns) :
                      Len(R.columns[i].items) = Len(R.columns[j].items)
               /\ R.num_rows = Cardinality({i \in 1..Len(M) : M[i]})

\* On frames whose columns all have row_count elements the statement of C1
\* holds: its failures are those of C2.
C1_OnAlignedFrames ==
    (frame # NoFrame /\ Aligned(frame)) => C1_FilterAppliesOneMask

\* C2: every column of the frame the caller holds is as long as row_count,
\* and column_count is the number of columns.
C2_ColumnsAligned ==
    frame # NoFrame => Aligned(frame)

\* C3: column names are unique, and name_index maps each column's name to
\* that column's position and has no other entry.
C3_NameIndexInverse ==
    frame # NoFrame => UniqueNames(frame)

\* C8: filter aborts when the name is not in the frame and when the optional
\* of the named column's kind is absent; otherwise it returns a frame,
\* whatever the other optional is.
C8_FilterFatal ==
    ret.op = "filter_frame"
        => IF ret.col \notin {frame.columns[i].key : i \in 1..Len(frame.columns)}
           THEN ret.out = Panic
           ELSE LET matching == IF Named(frame, ret.col).kind = "Numeric"
                                THEN ret.val ELSE ret.str_val
                IN  IF matching = None THEN ret.out = Panic ELSE ret.out.st = "ok"

C8_Witness ==
    /\ FilterReturned
    /\ Named(frame, ret.col).kind = "Numeric"
    /\ ret.val # None
    /\ ret.str_val = None
    /\ frame.num_rows = 2

\* Whether value v of the kind of the named column occurs in it.
Occurs(F, k, val, str_val) ==
    LET c == Named(F, k)
        v == IF c.kind = "Numeric" THEN val[1] ELSE str_val[1]
    IN  \E i \in 1..Len(c.items) : c.items[i] = v

C9_SameColumnSet ==
    FilterReturned
        => LET R == ret.out.value
           IN  /\ Len(R.columns) = Len(frame.columns)
               /\ \A i \in 1..Len(R.columns) :
                      /\ R.columns[i].key = frame.columns[i].key
                      /\ R.columns[i].kind = frame.columns[i].kind
               /\ R.column_idx = frame.column_idx
               /\ R.num_cols = frame.num_cols
               /\ (ret.comp = "Eq" /\ ~Occurs(frame, ret.col, ret.val, ret.str_val))
                      => /\ R.num_rows = 0
                         /\ \A i \in 1..Len(R.columns) : R.columns[i].items = << >>

\* C9: filter leaves the frame it is called on unchanged and returns a frame
\* with the same columns in the same order, the same names, variants,
\* name_index and column_count; with Eq and a value that does not occur in
\* the named column the result has row_count 0 and only empty columns.
C9_FilterKeepsColumnSet ==
    /\ []C9_SameColumnSet
    /\ [][ret'.op = "filter_frame" /\ ret.op = "none" => frame' = frame]_vars

C9_Witness ==
    /\ FilterReturned
    /\ ret.comp = "Eq"
    /\ ~Occurs(frame, ret.col, ret.val, ret.str_val)
    /\ Len(frame.columns) = 2
    /\ frame.num_rows = 2
    /\ Len(frame.columns[1].items) = 2
    /\ Len(frame.columns[2].items) = 2
    /\ ret.out.value.num_rows = 0

\* The positions (from 0) of the numeric columns of F, in frame order.
NumericPositions(F) ==
    LET P == {i \in 1..Len(F.columns) : F.columns[i].kind = "Numeric"}
    IN  [j \in 1..Cardinality(P) |->
            (CHOOSE i \in P : Cardinality({k \in P : k <= i}) = j) - 1]

\* C10: numeric_rows returns row_count rows, each with one entry per numeric
\* column in frame order, entry (i, j) being row i of the j-th numeric column;
\* numeric_index returns the positions of those columns, in the same order.
C10_NumericMatrix ==
    ret.op = "numeric_rows"
        => LET P == NumericPositions(frame)
           IN  /\ ret.index = P
               /\ ret.out.st = "ok"
               /\ Len(ret.out.value) = frame.num_rows
               /\ \A i \in 1..frame.num_rows :
                      /\ Len(ret.out.value[i]) = Len(P)
                      /\ \A j \in 1..Len(P) :
                             ret.out.value[i][j] = frame.columns[P[j] + 1].items[i]

\* On frames that satisfy the frame invariants the statement of C10 holds:
\* its failures are those of C2 and C3.
C10_OnWellFormedFrames ==
    (frame # NoFrame /\ Aligned(frame) /\ UniqueNames(frame)) => C10_NumericMatrix

\* C5: for a frame whose numeric values' string form parses back to the same
\* value, writing it and loading the file succeeds and gives a frame that
\* renders as the original does.  Stated for frames that have a column and
\* satisfy the frame invariants, so that a failure is the round trip's own.
C5_CsvRoundTrip ==
    (/\ ret.op = "frame_from_csv"
     /\ frame # NoFrame
     /\ Len(frame.columns) > 0
     /\ Aligned(frame)
     /\ UniqueNames(frame)
     /\ \A i \in 1..Len(frame.columns) :
            frame.columns[i].kind = "Numeric"
                => \A r \in 1..Len(frame.columns[i].items) :
                       Parse(to_string(frame.columns[i].items[r])) = Ok(frame.columns[i].items[r])
     /\ to_csv(frame).out.st = "ok"
     /\ file = to_csv(frame).file)
        => /\ ret.out.st = "ok"
           /\ NodFrame_to_string(ret.out.value) = NodFrame_to_string(frame)

====
